---- MODULE Spec2Model ----
(***************************************************************************)
(* A model of match.py: the destructuring pattern matcher (match,          *)
(* match_and_bind) and the match-expression class M with its alternation   *)
(* protocol (__init__, __invert__, __or__/_append, match).                 *)
(*                                                                         *)
(* Two specifications share the module:                                    *)
(*   SpecMatch  the pure functions match / match_and_bind applied to a     *)
(*              pattern and a value drawn from bounded sets;               *)
(*   Spec       a heap of M objects driven by the caller's operations      *)
(*              M(...), ~e, l | r and e == v.                              *)
(***************************************************************************)
EXTENDS Integers, Sequences, FiniteSets, TLC

(***************************************************************************)
(* Bounds of the model.                                                    *)
(***************************************************************************)
\* scalar literals are the integers 1..MaxInt
MaxInt == 2
\* tagged captures are A/0 .. A/MaxArgn
MaxArgn == 1
\* length of the outermost sequence of a pattern or value (SpecMatch)
MaxLen == 2

(***************************************************************************)
(* Python values.  One record shape for every value so that any two can    *)
(* be compared: type is the Python type name, val the scalar payload,      *)
(* elems the elements of a list or tuple, argn the argument number of an   *)
(* _Arg (<<>> for None, <<n>> for n).                                       *)
(***************************************************************************)
PyInt(i) == [type |-> "int", val |-> i, elems |-> <<>>, argn |-> <<>>]

PyBool(b) == [type |-> "bool", val |-> IF b THEN 1 ELSE 0, elems |-> <<>>, argn |-> <<>>]

PyNone == [type |-> "NoneType", val |-> 0, elems |-> <<>>, argn |-> <<>>]

PyList(s) == [type |-> "list", val |-> 0, elems |-> s, argn |-> <<>>]

PyTuple(s) == [type |-> "tuple", val |-> 0, elems |-> s, argn |-> <<>>]

PySeq(t, s) == [type |-> t, val |-> 0, elems |-> s, argn |-> <<>>]

\* _Arg(argn=n): the pattern leaf; its value field is None until bound
Arg(n) == [type |-> "arg", val |-> 0, elems |-> <<>>, argn |-> n]

\* A_ = _Arg() and A = _Arg(): argn is None
A_ == Arg(<<>>)

\* A/i: _Arg.__div__ returns _Arg(argn=i)
ArgDiv(i) == Arg(<<i>>)

\* _Arg.bind(value): a copy of the _Arg carrying the value
bind(a, value) == [argn |-> a.argn, value |-> value]

\* isinstance(v, t) for the builtin types of the model: bool subclasses int
isinstance(v, t) == v.type = t \/ (t = "int" /\ v.type = "bool")

IsSeqType(t) == t \in {"list", "tuple"}

RECURSIVE PyEq(_, _)
\* p == v of Python 2: numbers by value (True == 1), lists with lists and
\* tuples with tuples element by element, an _Arg (no __eq__) by identity,
\* and no runtime value is one of the pattern's _Arg objects.
PyEq(p, v) ==
    IF p.type \in {"int", "bool"}
    THEN v.type \in {"int", "bool"} /\ p.val = v.val
    ELSE IF p.type = "NoneType"
    THEN v.type = "NoneType"
    ELSE IF IsSeqType(p.type)
    THEN /\ v.type = p.type
         /\ Len(p.elems) = Len(v.elems)
         /\ \A i \in 1..Len(p.elems) : PyEq(p.elems[i], v.elems[i])
    ELSE FALSE

(***************************************************************************)
(* match(p, v): the structural matcher.                                    *)
(***************************************************************************)
RECURSIVE match(_, _)
RECURSIVE reduce_combine(_, _, _, _)

\* the alternative of match.combine that forgets an earlier failure
combine_restart(acc, a, b) ==
    LET r == match(a, b)
    IN  IF r.matched
        THEN [matched |-> TRUE, matches |-> acc.matches \o r.matches]
        ELSE [matched |-> FALSE, matches |-> acc.matches]

\* combine((x, y), (a, b)) of match
combine(acc, a, b) ==
    IF ~acc.matched
    THEN acc
    ELSE LET r == match(a, b)
         IN  IF r.matched
             THEN [matched |-> TRUE, matches |-> acc.matches \o r.matches]
             ELSE [matched |-> FALSE, matches |-> acc.matches]

\* reduce(combine, zip(p, v), (True, [])) from pair i on, acc the fold so far
reduce_combine(p, v, i, acc) ==
    IF i > Len(p)
    THEN acc
    ELSE reduce_combine(p, v, i + 1, combine(acc, p[i], v[i]))

RECURSIVE reduce_zip(_, _, _, _)
\* the fold over zip(p, v), which stops at the end of the shorter sequence
reduce_zip(p, v, i, acc) ==
    IF i > Len(p) \/ i > Len(v)
    THEN acc
    ELSE reduce_zip(p, v, i + 1, combine(acc, p[i], v[i]))

\* a matcher without the comparison of the lengths
match_nolen(p, v) ==
    IF p.type = "arg"
    THEN [matched |-> TRUE, matches |-> <<bind(p, v)>>]
    ELSE IF ~isinstance(v, p.type)
    THEN [matched |-> FALSE, matches |-> <<>>]
    ELSE IF PyEq(p, v)
    THEN [matched |-> TRUE, matches |-> <<>>]
    ELSE IF IsSeqType(p.type)
    THEN reduce_zip(p.elems, v.elems, 1, [matched |-> TRUE, matches |-> <<>>])
    ELSE [matched |-> FALSE, matches |-> <<>>]

match(p, v) ==
    IF p.type = "arg"
    THEN [matched |-> TRUE, matches |-> <<bind(p, v)>>]
    ELSE IF ~isinstance(v, p.type)
    THEN [matched |-> FALSE, matches |-> <<>>]
    ELSE IF PyEq(p, v)
    THEN [matched |-> TRUE, matches |-> <<>>]
    ELSE IF IsSeqType(p.type)
    THEN IF Len(p.elems) # Len(v.elems)
         THEN [matched |-> FALSE, matches |-> <<>>]
         ELSE reduce_combine(p.elems, v.elems, 1, [matched |-> TRUE, matches |-> <<>>])
    ELSE [matched |-> FALSE, matches |-> <<>>]

(***************************************************************************)
(* match_and_bind(p, v)                                                    *)
(***************************************************************************)
RECURSIVE filter_argn(_)
\* filter(lambda x: x.argn is not None, matches)
filter_argn(s) ==
    IF s = <<>>
    THEN <<>>
    ELSE IF Head(s).argn # <<>>
         THEN <<Head(s)>> \o filter_argn(Tail(s))
         ELSE filter_argn(Tail(s))

RECURSIVE insert_sorted(_, _)
\* x placed behind every element whose key is <= its own (a stable sort step)
insert_sorted(s, x) ==
    IF s = <<>>
    THEN <<x>>
    ELSE IF Head(s).argn[1] <= x.argn[1]
         THEN <<Head(s)>> \o insert_sorted(Tail(s), x)
         ELSE <<x>> \o s

RECURSIVE sorted_by_argn(_, _)
\* sorted(s, key=lambda x: x.argn): stable, ascending
sorted_by_argn(s, acc) ==
    IF s = <<>>
    THEN acc
    ELSE sorted_by_argn(Tail(s), insert_sorted(acc, Head(s)))

\* the extraction in the order the leaves were met, without sorting
match_and_bind_unsorted(p, v) ==
    LET r == match(p, v)
    IN  IF ~r.matched
        THEN PyNone
        ELSE LET s == filter_argn(r.matches)
             IN  PyTuple([i \in 1..Len(s) |-> s[i].value])

\* None when there is no match, else the tuple of the tagged values
match_and_bind(p, v) ==
    LET r == match(p, v)
    IN  IF ~r.matched
        THEN PyNone
        ELSE LET s == sorted_by_argn(filter_argn(r.matches), <<>>)
             IN  PyTuple([i \in 1..Len(s) |-> s[i].value])

(***************************************************************************)
(* class M.  The heap is the sequence of the M objects made so far; an     *)
(* object is named by its position.  matches holds references (positions). *)
(* kwargs is <<>> for M(pattern) and <<x>> for M(pattern, d=x); the        *)
(* attribute d exists only when has_d, so it is kept as <<>> or <<x>>.     *)
(***************************************************************************)
\* bool(x) of Python for the values of the model
truthy(x) ==
    IF x.type \in {"int", "bool"} THEN x.val # 0
    ELSE IF x.type = "NoneType" THEN FALSE
    ELSE IF IsSeqType(x.type) THEN x.elems # <<>>
    ELSE TRUE

\* a constructor that takes a falsy d for no d at all
M_init_truthy(pattern, kwargs) ==
    LET given == kwargs # <<>> /\ truthy(kwargs[1])
    IN  [pattern |-> pattern, matches |-> <<>>, has_d |-> given,
         d |-> IF given THEN kwargs ELSE <<>>, destruct |-> TRUE]

\* M.__init__(self, pattern, **kwargs)
M_init(pattern, kwargs) ==
    [pattern |-> pattern, matches |-> <<>>, has_d |-> kwargs # <<>>,
     d |-> kwargs, destruct |-> TRUE]

\* M.__invert__(self): the heap afterwards; self is returned
M_invert(h, self) == [h EXCEPT ![self].destruct = FALSE]

\* M._append(self, others): self.matches.extend(others)
M_append(h, self, others) == [h EXCEPT ![self].matches = @ \o others]

\* a chaining that extends both operands
M_or_both(h, self, other) ==
    LET others == <<self>> \o h[self].matches
    IN  M_append(M_append(h, other, others), self, <<other>> \o h[other].matches)

\* a chaining that extends self by other and returns self
M_or_self(h, self, other) == M_append(h, self, <<other>> \o h[other].matches)

\* a chaining that appends self behind its own alternatives
M_or_swapped(h, self, other) == M_append(h, other, h[self].matches \o <<self>>)

\* M.__or__(self, other): other._append([self] + self.matches); other is returned
M_or(h, self, other) == M_append(h, other, <<self>> \o h[self].matches)

RECURSIVE reversed(_)
\* reversed(s)
reversed(s) == IF s = <<>> THEN <<>> ELSE reversed(Tail(s)) \o <<Head(s)>>

\* chain(reversed(self.matches), [self]): the objects M.match goes through
trial_order(h, self) == reversed(h[self].matches) \o <<self>>

RECURSIVE join_repr(_, _)
RECURSIVE repr(_)
\* ", ".join(repr(x) for x in s[i:])
join_repr(s, i) ==
    IF i > Len(s) THEN ""
    ELSE IF i = Len(s) THEN repr(s[i])
    ELSE repr(s[i]) \o ", " \o join_repr(s, i + 1)

\* repr(v), which is also str(v) for the values of the model
repr(v) ==
    IF v.type = "int" THEN ToString(v.val)
    ELSE IF v.type = "bool" THEN (IF v.val = 1 THEN "True" ELSE "False")
    ELSE IF v.type = "NoneType" THEN "None"
    ELSE IF v.type = "list" THEN "[" \o join_repr(v.elems, 1) \o "]"
    ELSE IF v.type = "tuple"
    THEN "(" \o join_repr(v.elems, 1) \o (IF Len(v.elems) = 1 THEN "," ELSE "") \o ")"
    ELSE "<_Arg>"

Return(x) == [kind |-> "return", value |-> x, exc |-> "", msg |-> ""]

Raise(e, m) == [kind |-> "raise", value |-> PyNone, exc |-> e, msg |-> m]

\* raise ValueError, 'No match for %s' % value.  The % operator takes a tuple
\* on its right for the argument list: one element fills %s, any other
\* number of elements is a TypeError raised before the ValueError is made.
raise_no_match(value) ==
    IF value.type = "tuple"
    THEN IF Len(value.elems) = 1
         THEN Raise("ValueError", "No match for " \o repr(value.elems[1]))
         ELSE IF Len(value.elems) = 0
         THEN Raise("TypeError", "not enough arguments for format string")
         ELSE Raise("TypeError", "not all arguments converted during string formatting")
    ELSE Raise("ValueError", "No match for " \o repr(value))

RECURSIVE match_loop(_, _, _, _, _)
\* the for loop of M.match from the i-th object of order on, and its else
match_loop(h, self, order, i, value) ==
    IF i > Len(order)
    THEN IF h[self].destruct
         THEN raise_no_match(value)
         ELSE Return(PyBool(FALSE))
    ELSE LET m == h[order[i]]
             res == match_and_bind(m.pattern, value)
         IN  IF res = PyNone
             THEN match_loop(h, self, order, i + 1, value)
             ELSE IF ~m.destruct
             THEN Return(PyBool(TRUE))
             ELSE IF m.has_d
             THEN Return(m.d[1])
             ELSE Return(res)

\* an evaluation that answers by the mode of self, not of the winner
M_match_selfmode(h, self, value) ==
    LET order == trial_order(h, self)
        hit == {i \in 1..Len(order) : match_and_bind(h[order[i]].pattern, value) # PyNone}
    IN  IF hit = {}
        THEN match_loop(h, self, order, Len(order) + 1, value)
        ELSE IF ~h[self].destruct
        THEN Return(PyBool(TRUE))
        ELSE match_loop(h, self, order, 1, value)

\* M.match(self, value), which M.__eq__ calls
M_match(h, self, value) == match_loop(h, self, trial_order(h, self), 1, value)

(***************************************************************************)
(* The reference early-exit matcher of the design (stop at the first       *)
(* element mismatch), against which the fold of match.combine is compared. *)
(***************************************************************************)
RECURSIVE match_early(_, _)
RECURSIVE early_loop(_, _, _, _)

\* element pairs from i on; ys the bindings of the elements matched so far
early_loop(p, v, i, ys) ==
    IF i > Len(p)
    THEN [matched |-> TRUE, matches |-> ys]
    ELSE LET r == match_early(p[i], v[i])
         IN  IF ~r.matched
             THEN [matched |-> FALSE, matches |-> <<>>]
             ELSE early_loop(p, v, i + 1, ys \o r.matches)

match_early(p, v) ==
    IF p.type = "arg"
    THEN [matched |-> TRUE, matches |-> <<bind(p, v)>>]
    ELSE IF ~isinstance(v, p.type)
    THEN [matched |-> FALSE, matches |-> <<>>]
    ELSE IF PyEq(p, v)
    THEN [matched |-> TRUE, matches |-> <<>>]
    ELSE IF IsSeqType(p.type) /\ Len(p.elems) = Len(v.elems)
    THEN early_loop(p.elems, v.elems, 1, <<>>)
    ELSE [matched |-> FALSE, matches |-> <<>>]

(***************************************************************************)
(* Inputs of SpecMatch: patterns and values of nesting depth two.          *)
(***************************************************************************)
Scalars == {PyInt(i) : i \in 1..MaxInt}

Args == {A_} \cup {ArgDiv(i) : i \in 0..MaxArgn}

SeqTypes == {"list", "tuple"}

\* every sequence over S of length at most n
SeqsUpTo(S, n) == UNION {[1..k -> S] : k \in 0..n}

\* the nested values: scalars and two-element sequences of scalars
InnerValues ==
    Scalars \cup {PyList(<<PyInt(1), PyInt(2)>>), PyList(<<PyInt(1), PyInt(1)>>),
                  PyTuple(<<PyInt(1), PyInt(2)>>)}

\* the nested patterns: scalars, captures and short sequences holding captures
InnerPatterns ==
    Scalars \cup Args \cup
    {PyList(<<ArgDiv(0), PyInt(2)>>), PyList(<<PyInt(2), ArgDiv(1)>>),
     PyTuple(<<ArgDiv(0), PyInt(2)>>), PyList(<<A_>>)}

Values == InnerValues \cup {PySeq(t, s) : t \in SeqTypes, s \in SeqsUpTo(InnerValues, MaxLen)}

Patterns == InnerPatterns \cup {PySeq(t, s) : t \in SeqTypes, s \in SeqsUpTo(InnerPatterns, MaxLen)}

NoResult == [matched |-> FALSE, matches |-> <<>>]

(***************************************************************************)
(* Inputs of Spec.  The caller constructs its expressions in one order,    *)
(*     e1 = M([A/0]);  e2 = M(A/0);  e3 = M([1, A/0] [, d=x])              *)
(* (the alternatives of the module's documentation), and then inverts      *)
(* them, chains one to another and evaluates them, in any order and any    *)
(* number of times.                                                        *)
(***************************************************************************)
\* total length of the matches lists on the heap
MaxLinks == 3

\* the pattern of the k-th constructor call
CtorPatterns ==
    << PyList(<<ArgDiv(0)>>),
       ArgDiv(0),
       PyList(<<PyInt(1), ArgDiv(0)>>) >>

\* the keyword arguments the k-th constructor call may carry
CtorKwargs ==
    << {<<>>},
       {<<>>},
       {<<>>, <<PyBool(FALSE)>>, <<PyInt(7)>>} >>

HeapValues ==
    { PyInt(5),
      PyList(<<PyInt(5)>>),
      PyList(<<PyInt(1), PyInt(-10)>>),
      PyTuple(<<PyInt(1), PyInt(2)>>) }

NoCall == [op |-> "none", self |-> 0, value |-> PyNone, res |-> Return(PyNone)]

(***************************************************************************)
(* State.                                                                  *)
(***************************************************************************)
VARIABLES
    heap,    \* Spec: the M objects, in the order they were constructed
    last,    \* Spec: the latest call of M.match: self, value and outcome
    mp,      \* SpecMatch: the pattern handed to match_and_bind
    mv,      \* SpecMatch: the value handed to match_and_bind
    mpc,     \* SpecMatch: "start" before the call, "done" after it
    mres,    \* SpecMatch: what match(mp, mv) returned
    mbound   \* SpecMatch: what match_and_bind(mp, mv) returned

heapVars == <<heap, last>>

matchVars == <<mp, mv, mpc, mres, mbound>>

vars == <<heap, last, mp, mv, mpc, mres, mbound>>

Objs == 1..Len(heap)

(***************************************************************************)
(* SpecMatch: one call of match_and_bind on every pattern and value.       *)
(***************************************************************************)
InitMatch ==
    /\ mp \in Patterns
    /\ mv \in Values
    /\ mpc = "start"
    /\ mres = NoResult
    /\ mbound = PyNone
    /\ heap = <<>>
    /\ last = NoCall

CallMatchAndBind ==
    /\ mpc = "start"
    /\ mres' = match(mp, mv)
    /\ mbound' = match_and_bind(mp, mv)
    /\ mpc' = "done"
    /\ UNCHANGED <<mp, mv>>
    /\ UNCHANGED heapVars

NextMatch == CallMatchAndBind

SpecMatch == InitMatch /\ [][NextMatch]_vars

(***************************************************************************)
(* Spec: the caller's operations on match expressions.                     *)
(***************************************************************************)
Init ==
    /\ heap = <<>>
    /\ last = NoCall
    /\ mp = PyNone
    /\ mv = PyNone
    /\ mpc = "idle"
    /\ mres = NoResult
    /\ mbound = PyNone

RECURSIVE links(_, _)
\* the lengths of the matches lists of h[i..] added up
links(h, i) == IF i > Len(h) THEN 0 ELSE Len(h[i].matches) + links(h, i + 1)

\* M(pattern) or M(pattern, d=x): the next constructor call of the caller
New(kwargs) ==
    /\ Len(heap) < Len(CtorPatterns)
    /\ kwargs \in CtorKwargs[Len(heap) + 1]
    /\ heap' = Append(heap, M_init(CtorPatterns[Len(heap) + 1], kwargs))
    /\ UNCHANGED last
    /\ UNCHANGED matchVars

\* ~e
Invert(e) ==
    /\ heap' = M_invert(heap, e)
    /\ UNCHANGED last
    /\ UNCHANGED matchVars

\* l | r, of two expressions of the caller
Or(l, r) ==
    /\ l # r
    /\ links(heap, 1) + 1 + Len(heap[l].matches) <= MaxLinks
    /\ heap' = M_or(heap, l, r)
    /\ UNCHANGED last
    /\ UNCHANGED matchVars

\* e == v
Eq(e, v) ==
    /\ last' = [op |-> "match", self |-> e, value |-> v, res |-> M_match(heap, e, v)]
    /\ UNCHANGED heap
    /\ UNCHANGED matchVars

Next ==
    \/ \E kwargs \in {<<>>, <<PyBool(FALSE)>>, <<PyInt(7)>>} : New(kwargs)
    \/ \E e \in Objs : Invert(e)
    \/ \E l \in Objs, r \in Objs : Or(l, r)
    \/ \E e \in Objs, v \in HeapValues : Eq(e, v)

Spec == Init /\ [][Next]_vars

(***************************************************************************)
(* Properties of the matcher and the extractor, checked under SpecMatch.   *)
(***************************************************************************)
RECURSIVE leaves(_, _)
RECURSIVE leaves_from(_, _, _)
\* the capture leaves of p, left to right, each with the part of v it faces
leaves(p, v) ==
    IF p.type = "arg"
    THEN <<[argn |-> p.argn, value |-> v]>>
    ELSE IF IsSeqType(p.type) /\ IsSeqType(v.type)
    THEN leaves_from(p.elems, v.elems, 1)
    ELSE <<>>

leaves_from(ps, vs, i) ==
    IF i > Len(ps) \/ i > Len(vs)
    THEN <<>>
    ELSE leaves(ps[i], vs[i]) \o leaves_from(ps, vs, i + 1)

IsTagged(x) == x.argn # <<>>

RECURSIVE by_index(_)
\* the tagged leaves of ls, lowest index first, equal indices in leaf order
by_index(ls) ==
    LET tagged == SelectSeq(ls, IsTagged)
    IN  IF tagged = <<>>
        THEN <<>>
        ELSE LET k == CHOOSE a \in {tagged[i].argn[1] : i \in 1..Len(tagged)} :
                          \A j \in 1..Len(tagged) : a <= tagged[j].argn[1]
                 IsK(x) == x.argn = <<k>>
                 NotK(x) == x.argn # <<k>>
             IN  SelectSeq(tagged, IsK) \o by_index(SelectSeq(tagged, NotK))

ValuesOf(ls) == [i \in 1..Len(ls) |-> ls[i].value]

\* C2: whenever the pattern matches, the extracted result is exactly the
\* values at the tagged capture leaves (at any depth), in ascending order of
\* capture index whatever their position; untagged captures contribute
\* nothing, and without tagged captures the result is the empty tuple.
C2_ExtractByIndex ==
    (mpc = "done" /\ mres.matched) =>
        mbound = PyTuple(ValuesOf(by_index(leaves(mp, mv))))

\* a match whose nested, tagged captures stand in descending index order
\* beside an untagged capture
C2_Witness ==
    /\ mpc = "done"
    /\ mres.matched
    /\ IsSeqType(mp.type)
    /\ Len(mp.elems) = 2
    /\ mp.elems[1] = ArgDiv(1)
    /\ IsSeqType(mp.elems[2].type)
    /\ \E i \in 1..Len(mp.elems[2].elems) : mp.elems[2].elems[i] = ArgDiv(0)
    /\ Len(mbound.elems) = 2
    /\ mbound.elems[2] = mv.elems[1]

RECURSIVE ShapeMismatch(_, _)
\* somewhere below, a sequence pattern faces a value of another type or
\* length, or a scalar pattern faces a sequence
ShapeMismatch(p, v) ==
    IF p.type = "arg"
    THEN FALSE
    ELSE IF IsSeqType(p.type)
    THEN \/ v.type # p.type
         \/ Len(v.elems) # Len(p.elems)
         \/ \E i \in 1..Len(p.elems) : ShapeMismatch(p.elems[i], v.elems[i])
    ELSE IsSeqType(v.type)

\* C7: a shape mismatch at any depth (lengths, list against tuple, scalar
\* against sequence, either way round) fails the whole match whatever the
\* other elements hold, as the ordinary negative outcome: match reports
\* not-matched and match_and_bind returns None, which M.match skips.
C7_ShapeMismatchFails ==
    (mpc = "done" /\ ShapeMismatch(mp, mv)) =>
        (~mres.matched /\ mbound = PyNone)

\* a nested length mismatch behind an element that matched and bound
C7_Witness ==
    /\ mpc = "done"
    /\ IsSeqType(mp.type)
    /\ mp.type = mv.type
    /\ Len(mp.elems) = 2
    /\ Len(mv.elems) = 2
    /\ mp.elems[1] = ArgDiv(0)
    /\ IsSeqType(mp.elems[2].type)
    /\ mp.elems[2].type = mv.elems[2].type
    /\ Len(mp.elems[2].elems) # Len(mv.elems[2].elems)
    /\ ~mres.matched

\* C9: the fold of match.combine agrees with the early-exit matcher on
\* matched / not matched and, on success, on the bindings and their order;
\* after a failure nothing bound so far reaches the extracted result.
C9_FoldEqualsEarlyExit ==
    (mpc = "done") =>
        LET e == match_early(mp, mv)
        IN  /\ mres.matched = e.matched
            /\ e.matched => mres.matches = e.matches
            /\ ~e.matched => mbound = PyNone

\* the first pair fails, and the pairs behind it would match and bind
C9_Witness ==
    /\ mpc = "done"
    /\ IsSeqType(mp.type)
    /\ mp.type = mv.type
    /\ Len(mp.elems) = 2
    /\ Len(mv.elems) = 2
    /\ ~match(mp.elems[1], mv.elems[1]).matched
    /\ IsSeqType(mp.elems[2].type)
    /\ match(mp.elems[2], mv.elems[2]).matched
    /\ match(mp.elems[2], mv.elems[2]).matches # <<>>
    /\ ~mres.matched
    /\ mbound = PyNone

(***************************************************************************)
(* Properties of class M, checked under Spec.                              *)
(***************************************************************************)
\* last holds a call e == v whose outcome is the one e gives on v now: the
\* state right after the call, and any later state in which no operation
\* has changed what the call returns
Current ==
    /\ last.op = "match"
    /\ last.res = M_match(heap, last.self, last.value)

\* this step is the chaining l | r
OrStep(l, r) == heap' # heap /\ Len(heap') = Len(heap) /\ Or(l, r)

\* this step is the inversion ~e
InvertStep(e) == heap' # heap /\ Len(heap') = Len(heap) /\ Invert(e)

\* the pattern of object m matches v
AltMatches(h, m, v) == match(h[m].pattern, v).matched

RECURSIVE first_hit(_, _, _, _)
\* the first place from i on of an alternative of order whose pattern
\* matches v, 0 when there is none
first_hit(h, order, v, i) ==
    IF i > Len(order) THEN 0
    ELSE IF AltMatches(h, order[i], v) THEN i
    ELSE first_hit(h, order, v, i + 1)

\* what the alternative m yields on its own, as an expression without fallbacks
AloneOutcome(h, m, v) == M_match([h EXCEPT ![m].matches = <<>>], m, v)

NoDuplicates(s) == \A i \in 1..Len(s), j \in 1..Len(s) : s[i] = s[j] => i = j

\* the objects e goes through when it is evaluated
Alternatives(h, e) == {trial_order(h, e)[i] : i \in 1..Len(trial_order(h, e))}

\* C1: chaining l | r of expressions over pairwise distinct alternatives
\* yields an expression that tries the alternatives of l in l's trial order
\* and then those of r in r's trial order (so a chain E1 | ... | En, under
\* any parenthesization, is tried in declaration order), and an evaluation
\* returns the outcome of the first alternative whose pattern matches.
C1_DeclarationOrder ==
    /\ [][ heap' # heap
           => \A l \in Objs, r \in Objs :
                  (OrStep(l, r) /\ NoDuplicates(trial_order(heap, l) \o trial_order(heap, r)))
                  => trial_order(heap', r) = trial_order(heap, l) \o trial_order(heap, r)
         ]_vars
    /\ [](Current
          => LET order == trial_order(heap, last.self)
                 w == first_hit(heap, order, last.value, 1)
             IN  w # 0 => last.res = AloneOutcome(heap, order[w], last.value))

\* (e1 | e2) | e3 evaluated on [1, -10]: e1 fails, e2 wins before e3
C1_Witness ==
    /\ Len(heap) = 3
    /\ heap[2].matches = <<1>>
    /\ heap[3].matches = <<2, 1>>
    /\ \A m \in Objs : heap[m].destruct /\ ~heap[m].has_d
    /\ last.op = "match"
    /\ last.self = 3
    /\ last.value = PyList(<<PyInt(1), PyInt(-10)>>)
    /\ last.res = Return(PyTuple(<<PyList(<<PyInt(1), PyInt(-10)>>)>>))

\* C3: a destructuring expression evaluated on a value that fails every
\* alternative raises ValueError carrying that value, whatever the value's
\* kind, and no other error.
C3_NoMatchRaisesValueError ==
    (/\ Current
     /\ heap[last.self].destruct
     /\ first_hit(heap, trial_order(heap, last.self), last.value, 1) = 0)
    => last.res = Raise("ValueError", "No match for " \o repr(last.value))

\* C4 as stated: in boolean mode, also when a chain was inverted as a
\* whole, an evaluation returns True when some alternative matches and False
\* when none does, never bindings or a default.
C4_BooleanModeOriginal ==
    (Current /\ ~heap[last.self].destruct)
    => last.res = Return(PyBool(first_hit(heap, trial_order(heap, last.self), last.value, 1) # 0))

\* C4 as amended: an expression in boolean mode never raises: it returns
\* False when no alternative matches and True when the first matching
\* alternative is itself in boolean mode (always so without fallbacks); when
\* the first matching alternative is a destructuring fallback, its default
\* or its bindings are returned.
C4_BooleanModeNeverRaises ==
    (Current /\ ~heap[last.self].destruct)
    => LET order == trial_order(heap, last.self)
           w == first_hit(heap, order, last.value, 1)
       IN  /\ last.res.kind = "return"
           /\ w = 0 => last.res = Return(PyBool(FALSE))
           /\ (w # 0 /\ ~heap[order[w]].destruct) => last.res = Return(PyBool(TRUE))
           /\ (w # 0 /\ heap[order[w]].destruct)
              => last.res = Return(IF heap[order[w]].has_d
                                   THEN heap[order[w]].d[1]
                                   ELSE match_and_bind(heap[order[w]].pattern, last.value))

\* ~(e1 | e2) evaluated where the destructuring e1 wins: bindings come back
C4_Witness ==
    /\ Current
    /\ ~heap[last.self].destruct
    /\ heap[last.self].matches # <<>>
    /\ last.res.kind = "return"
    /\ last.res.value.type = "tuple"

\* C5: a constructor given d=x keeps x as the default, a falsy x too, and
\* one given no d keeps none; when the first matching alternative is
\* destructuring, an evaluation returns exactly its default if it was
\* constructed with one, whatever its pattern captured, and the extracted
\* bindings if it was not.
C5_DefaultReturned ==
    /\ [][ Len(heap') # Len(heap)
           => \A kwargs \in CtorKwargs[Len(heap')] :
                  New(kwargs)
                  => /\ heap'[Len(heap')].has_d = (kwargs # <<>>)
                     /\ heap'[Len(heap')].d = kwargs
         ]_vars
    /\ [](Current
          => LET order == trial_order(heap, last.self)
                 w == first_hit(heap, order, last.value, 1)
             IN  (w # 0 /\ heap[order[w]].destruct)
                 => /\ heap[order[w]].has_d => last.res = Return(heap[order[w]].d[1])
                    /\ ~heap[order[w]].has_d
                       => last.res = Return(match_and_bind(heap[order[w]].pattern, last.value)))

\* M([1, A/0], d=False) evaluated on [1, -10]: False, not (-10,)
C5_Witness ==
    /\ Len(heap) = 3
    /\ heap[3].has_d
    /\ heap[3].d = <<PyBool(FALSE)>>
    /\ heap[3].destruct
    /\ heap[3].matches = <<>>
    /\ last.op = "match"
    /\ last.self = 3
    /\ last.value = PyList(<<PyInt(1), PyInt(-10)>>)
    /\ last.res = Return(PyBool(FALSE))

\* C6: when the winning alternative is destructuring, has no default and
\* captured exactly one tagged value, an evaluation returns that value itself.
C6_SingleCaptureUnwrapped ==
    Current
    => LET order == trial_order(heap, last.self)
           w == first_hit(heap, order, last.value, 1)
           tagged == by_index(leaves(heap[order[w]].pattern, last.value))
       IN  (/\ w # 0
            /\ heap[order[w]].destruct
            /\ ~heap[order[w]].has_d
            /\ Len(tagged) = 1)
           => last.res = Return(tagged[1].value)

\* C8 as stated: once an expression has been evaluated no later step
\* mutates it, and evaluating it again on the same value gives the outcome
\* it gave.
C8_SealedOriginal ==
    [][ last.op = "match"
        => /\ heap'[last.self] = heap[last.self]
           /\ M_match(heap', last.self, last.value) = last.res
      ]_vars

\* C8 as amended: an evaluation mutates no expression, and what an
\* evaluated expression returns on the value it was evaluated on is left as
\* it is by every operation other than a chaining onto it (x | e) and an
\* inversion of one of its alternatives; those two are accepted after an
\* evaluation as before it and may change what later evaluations return.
C8_OutcomesStableUnlessRechained ==
    [][ /\ last' # last => heap' = heap
        /\ (/\ heap' # heap
            /\ last.op = "match"
            /\ ~ \E x \in Objs : OrStep(x, last.self)
            /\ ~ \E m \in Alternatives(heap, last.self) : InvertStep(m))
           => M_match(heap', last.self, last.value) = M_match(heap, last.self, last.value)
      ]_vars

\* an expression evaluated and chained onto afterwards: it answers otherwise
C8_Witness ==
    /\ last.op = "match"
    /\ heap[last.self].matches # <<>>
    /\ last.res.kind = "raise"
    /\ M_match(heap, last.self, last.value).kind = "return"

\* C10: a chaining l | r of two distinct objects changes r alone, by l and
\* a copy of l's alternatives: l keeps its pattern, mode, default and
\* fallback list and so its outcomes, and every other object (an l | r built
\* earlier, when the step is z | l) keeps the order of alternatives it tries.
C10_ChainingChangesRightOnly ==
    [][ heap' # heap
        => \A l \in Objs, r \in Objs :
               (l # r /\ OrStep(l, r))
               => /\ \A x \in Objs \ {r} : heap'[x] = heap[x]
                  /\ \A x \in Objs \ {r} : trial_order(heap', x) = trial_order(heap, x)
                  /\ \A v \in HeapValues : M_match(heap', l, v) = M_match(heap, l, v)
                  /\ heap'[r].pattern = heap[r].pattern
                  /\ heap'[r].destruct = heap[r].destruct
                  /\ heap'[r].d = heap[r].d
      ]_vars

\* e1 | e2 was built, then e3 | e1: e2 still tries e1 and then itself
C10_Witness ==
    /\ Len(heap) = 3
    /\ heap[2].matches = <<1>>
    /\ heap[1].matches = <<3>>
    /\ trial_order(heap, 2) = <<1, 2>>
    /\ last.op = "match"
    /\ last.self = 2

====
